---------------------------- MODULE Spec2Model ----------------------------
(***************************************************************************)
(* A model of src/main.go: the Chinese text categorizer.                   *)
(*                                                                         *)
(* A Go string is modelled as the sequence of its runes (code points), a   *)
(* []string as a sequence of such sequences, a prose.Token as a record     *)
(* [Text, Tag].  The tokenizer/tagger (prose.NewDocument) is external: the *)
(* token stream it returns is an input, drawn from small pools.  Its       *)
(* tokens are non-empty and hold no white space (it splits on white        *)
(* space), and the pools keep to that.                                     *)
(*                                                                         *)
(* Go leaves the iteration order of a map unspecified; every `range` over  *)
(* a map is a nondeterministic choice of the order.                        *)
(***************************************************************************)
EXTENDS Integers, Sequences, FiniteSets

VARIABLES
    pc,             \* position in the function being run
    tokens,         \* doc.Tokens(): the tagged token stream
    i,              \* index of the next token of the `range tokens` loop
    results,        \* results: category -> []string        (main.go:180)
    group,          \* which chunker runs: "noun" (main.go:90) or "verb" (main.go:116)
    currentPhrase,  \* the chunker's pending buffer         (main.go:92, 118)
    phrases,        \* nounPhrases / verbPhrases            (main.go:91, 117)
    content,        \* countFrequencies' argument           (main.go:60)
    counts,         \* the frequency map                    (main.go:61)
    sortedItems,    \* sortByFrequency's result             (main.go:82)
    files,          \* the output directory: category -> file contents, for the files that exist
    todo,           \* the categories the `range categoryFiles` loop has not visited yet
    err,            \* the error categorizeChineseText returns ("nil": none)
    run,            \* which run of the program this is
    prev            \* the output directory as the previous run left it

vars == <<pc, tokens, i, results, group, currentPhrase, phrases, content,
          counts, sortedItems, files, todo, err, run, prev>>

-----------------------------------------------------------------------------
(* Bounds of the model *)

MaxChunkTokens == 4
MaxDocTokens == 3
MaxRunTokens == 3
MaxItems == 4

-----------------------------------------------------------------------------
(* Runes and strings *)

Space == 32
Hyphen == 45
Newline == 10

\* unicode.Is(unicode.Han, r): the ranges of the table unicode.Han
\* (Unicode 15.0.0, the tables of Go 1.21 and later; Go 1.16 to 1.20 carry
\* Unicode 13.0.0, whose ranges end at U+9FFC, U+2A6DD and U+2B734 and stop
\* at U+3134A).
IsHan(r) ==
    \/ r \in 11904..11929       \* 2E80-2E99
    \/ r \in 11931..12019       \* 2E9B-2EF3
    \/ r \in 12032..12245       \* 2F00-2FD5
    \/ r \in {12293, 12295}     \* 3005, 3007
    \/ r \in 12321..12329       \* 3021-3029
    \/ r \in 12344..12347       \* 3038-303B
    \/ r \in 13312..19903       \* 3400-4DBF
    \/ r \in 19968..40959       \* 4E00-9FFF
    \/ r \in 63744..64109       \* F900-FA6D
    \/ r \in 64112..64217       \* FA70-FAD9
    \/ r \in 94178..94179       \* 16FE2-16FE3
    \/ r \in 94192..94193       \* 16FF0-16FF1
    \/ r \in 131072..173791     \* 20000-2A6DF
    \/ r \in 173824..177977     \* 2A700-2B739
    \/ r \in 177984..178205     \* 2B740-2B81D
    \/ r \in 178208..183969     \* 2B820-2CEA1
    \/ r \in 183984..191456     \* 2CEB0-2EBE0
    \/ r \in 194560..195101     \* 2F800-2FA1D
    \/ r \in 196608..201546     \* 30000-3134A
    \/ r \in 201552..205743     \* 31350-323AF

\* The rune a table of <<lo, hi, stride, delta>> entries maps r to; a rune
\* in no entry maps to itself.
CaseMap(table, r) ==
    IF table = <<>> \/ r < table[1][1] \/ r > table[Len(table)][2] THEN r
    ELSE LET hits == {k \in 1..Len(table) :
                        /\ r \in table[k][1]..table[k][2]
                        /\ (r - table[k][1]) % table[k][3] = 0}
         IN  IF hits = {} THEN r
             ELSE r + table[CHOOSE k \in hits : TRUE][4]

\* unicode.CaseRanges as unicode.ToUpper reads it: the upper case of the
\* runes from U+0080 to U+2D2D.  Each entry <<lo, hi, stride, delta>> maps lo, lo + stride, ..., hi to the rune
\* delta further on.  Unicode 15.0.0.
UpperRangesLow ==
    <<
    <<181, 181, 1, 743>>, <<224, 246, 1, -32>>, <<248, 254, 1, -32>>,
    <<255, 255, 1, 121>>, <<257, 303, 2, -1>>, <<305, 305, 1, -232>>,
    <<307, 311, 2, -1>>, <<314, 328, 2, -1>>, <<331, 375, 2, -1>>,
    <<378, 382, 2, -1>>, <<383, 383, 1, -300>>, <<384, 384, 1, 195>>,
    <<387, 389, 2, -1>>, <<392, 392, 1, -1>>, <<396, 396, 1, -1>>,
    <<402, 402, 1, -1>>, <<405, 405, 1, 97>>, <<409, 409, 1, -1>>,
    <<410, 410, 1, 163>>, <<414, 414, 1, 130>>, <<417, 421, 2, -1>>,
    <<424, 424, 1, -1>>, <<429, 429, 1, -1>>, <<432, 432, 1, -1>>,
    <<436, 438, 2, -1>>, <<441, 441, 1, -1>>, <<445, 445, 1, -1>>,
    <<447, 447, 1, 56>>, <<453, 453, 1, -1>>, <<454, 454, 1, -2>>,
    <<456, 456, 1, -1>>, <<457, 457, 1, -2>>, <<459, 459, 1, -1>>,
    <<460, 460, 1, -2>>, <<462, 476, 2, -1>>, <<477, 477, 1, -79>>,
    <<479, 495, 2, -1>>, <<498, 498, 1, -1>>, <<499, 499, 1, -2>>,
    <<501, 501, 1, -1>>, <<505, 543, 2, -1>>, <<547, 563, 2, -1>>,
    <<572, 572, 1, -1>>, <<575, 576, 1, 10815>>, <<578, 578, 1, -1>>,
    <<583, 591, 2, -1>>, <<592, 592, 1, 10783>>, <<593, 593, 1, 10780>>,
    <<594, 594, 1, 10782>>, <<595, 595, 1, -210>>, <<596, 596, 1, -206>>,
    <<598, 599, 1, -205>>, <<601, 601, 1, -202>>, <<603, 603, 1, -203>>,
    <<604, 604, 1, 42319>>, <<608, 608, 1, -205>>, <<609, 609, 1, 42315>>,
    <<611, 611, 1, -207>>, <<613, 613, 1, 42280>>, <<614, 614, 1, 42308>>,
    <<616, 616, 1, -209>>, <<617, 617, 1, -211>>, <<618, 618, 1, 42308>>,
    <<619, 619, 1, 10743>>, <<620, 620, 1, 42305>>, <<623, 623, 1, -211>>,
    <<625, 625, 1, 10749>>, <<626, 626, 1, -213>>, <<629, 629, 1, -214>>,
    <<637, 637, 1, 10727>>, <<640, 640, 1, -218>>, <<642, 642, 1, 42307>>,
    <<643, 643, 1, -218>>, <<647, 647, 1, 42282>>, <<648, 648, 1, -218>>,
    <<649, 649, 1, -69>>, <<650, 651, 1, -217>>, <<652, 652, 1, -71>>,
    <<658, 658, 1, -219>>, <<669, 669, 1, 42261>>, <<670, 670, 1, 42258>>,
    <<837, 837, 1, 84>>, <<881, 883, 2, -1>>, <<887, 887, 1, -1>>,
    <<891, 893, 1, 130>>, <<940, 940, 1, -38>>, <<941, 943, 1, -37>>,
    <<945, 961, 1, -32>>, <<962, 962, 1, -31>>, <<963, 971, 1, -32>>,
    <<972, 972, 1, -64>>, <<973, 974, 1, -63>>, <<976, 976, 1, -62>>,
    <<977, 977, 1, -57>>, <<981, 981, 1, -47>>, <<982, 982, 1, -54>>,
    <<983, 983, 1, -8>>, <<985, 1007, 2, -1>>, <<1008, 1008, 1, -86>>,
    <<1009, 1009, 1, -80>>, <<1010, 1010, 1, 7>>, <<1011, 1011, 1, -116>>,
    <<1013, 1013, 1, -96>>, <<1016, 1016, 1, -1>>, <<1019, 1019, 1, -1>>,
    <<1072, 1103, 1, -32>>, <<1104, 1119, 1, -80>>, <<1121, 1153, 2, -1>>,
    <<1163, 1215, 2, -1>>, <<1218, 1230, 2, -1>>, <<1231, 1231, 1, -15>>,
    <<1233, 1327, 2, -1>>, <<1377, 1414, 1, -48>>, <<4304, 4346, 1, 3008>>,
    <<4349, 4351, 1, 3008>>, <<5112, 5117, 1, -8>>, <<7296, 7296, 1, -6254>>,
    <<7297, 7297, 1, -6253>>, <<7298, 7298, 1, -6244>>,
    <<7299, 7300, 1, -6242>>, <<7301, 7301, 1, -6243>>,
    <<7302, 7302, 1, -6236>>, <<7303, 7303, 1, -6181>>,
    <<7304, 7304, 1, 35266>>, <<7545, 7545, 1, 35332>>,
    <<7549, 7549, 1, 3814>>, <<7566, 7566, 1, 35384>>, <<7681, 7829, 2, -1>>,
    <<7835, 7835, 1, -59>>, <<7841, 7935, 2, -1>>, <<7936, 7943, 1, 8>>,
    <<7952, 7957, 1, 8>>, <<7968, 7975, 1, 8>>, <<7984, 7991, 1, 8>>,
    <<8000, 8005, 1, 8>>, <<8017, 8023, 2, 8>>, <<8032, 8039, 1, 8>>,
    <<8048, 8049, 1, 74>>, <<8050, 8053, 1, 86>>, <<8054, 8055, 1, 100>>,
    <<8056, 8057, 1, 128>>, <<8058, 8059, 1, 112>>, <<8060, 8061, 1, 126>>,
    <<8064, 8071, 1, 8>>, <<8080, 8087, 1, 8>>, <<8096, 8103, 1, 8>>,
    <<8112, 8113, 1, 8>>, <<8115, 8115, 1, 9>>, <<8126, 8126, 1, -7205>>,
    <<8131, 8131, 1, 9>>, <<8144, 8145, 1, 8>>, <<8160, 8161, 1, 8>>,
    <<8165, 8165, 1, 7>>, <<8179, 8179, 1, 9>>, <<8526, 8526, 1, -28>>,
    <<8560, 8575, 1, -16>>, <<8580, 8580, 1, -1>>, <<9424, 9449, 1, -26>>,
    <<11312, 11359, 1, -48>>, <<11361, 11361, 1, -1>>,
    <<11365, 11365, 1, -10795>>, <<11366, 11366, 1, -10792>>,
    <<11368, 11372, 2, -1>>, <<11379, 11379, 1, -1>>, <<11382, 11382, 1, -1>>,
    <<11393, 11491, 2, -1>>, <<11500, 11502, 2, -1>>, <<11507, 11507, 1, -1>>,
    <<11520, 11557, 1, -7264>>, <<11559, 11559, 1, -7264>>,
    <<11565, 11565, 1, -7264>>
    >>

\* The same from U+A640 on; no rune between the two tables has a mapping.
UpperRangesHigh ==
    <<
    <<42561, 42605, 2, -1>>, <<42625, 42651, 2, -1>>, <<42787, 42799, 2, -1>>,
    <<42803, 42863, 2, -1>>, <<42874, 42876, 2, -1>>, <<42879, 42887, 2, -1>>,
    <<42892, 42892, 1, -1>>, <<42897, 42899, 2, -1>>, <<42900, 42900, 1, 48>>,
    <<42903, 42921, 2, -1>>, <<42933, 42947, 2, -1>>, <<42952, 42954, 2, -1>>,
    <<42961, 42961, 1, -1>>, <<42967, 42969, 2, -1>>, <<42998, 42998, 1, -1>>,
    <<43859, 43859, 1, -928>>, <<43888, 43967, 1, -38864>>,
    <<65345, 65370, 1, -32>>, <<66600, 66639, 1, -40>>,
    <<66776, 66811, 1, -40>>, <<66967, 67003, 2, -39>>,
    <<66968, 66976, 2, -39>>, <<66980, 66992, 2, -39>>,
    <<66996, 67000, 2, -39>>, <<67004, 67004, 1, -39>>,
    <<68800, 68850, 1, -64>>, <<71872, 71903, 1, -32>>,
    <<93792, 93823, 1, -32>>, <<125218, 125251, 1, -34>>
    >>

\* unicode.ToUpper(r)
ToUpper(r) ==
    IF r <= 127 THEN (IF r \in 97..122 THEN r - 32 ELSE r)
    ELSE IF r <= UpperRangesLow[Len(UpperRangesLow)][2]
         THEN CaseMap(UpperRangesLow, r)
         ELSE CaseMap(UpperRangesHigh, r)

\* The classes of runes unicode.SimpleFold walks, as strings.EqualFold
\* compares them: the rune each rune from U+0080 to U+2D2D folds to (the
\* others of its class fold to the same rune).  Each entry <<lo, hi, stride, delta>> maps lo, lo + stride, ..., hi to the rune
\* delta further on.  Unicode 15.0.0.
FoldRangesLow ==
    <<
    <<181, 181, 1, 775>>, <<192, 214, 1, 32>>, <<216, 222, 1, 32>>,
    <<256, 302, 2, 1>>, <<306, 310, 2, 1>>, <<313, 327, 2, 1>>,
    <<330, 374, 2, 1>>, <<376, 376, 1, -121>>, <<377, 381, 2, 1>>,
    <<383, 383, 1, -268>>, <<385, 385, 1, 210>>, <<386, 388, 2, 1>>,
    <<390, 390, 1, 206>>, <<391, 391, 1, 1>>, <<393, 394, 1, 205>>,
    <<395, 395, 1, 1>>, <<398, 398, 1, 79>>, <<399, 399, 1, 202>>,
    <<400, 400, 1, 203>>, <<401, 401, 1, 1>>, <<403, 403, 1, 205>>,
    <<404, 404, 1, 207>>, <<406, 406, 1, 211>>, <<407, 407, 1, 209>>,
    <<408, 408, 1, 1>>, <<412, 412, 1, 211>>, <<413, 413, 1, 213>>,
    <<415, 415, 1, 214>>, <<416, 420, 2, 1>>, <<422, 422, 1, 218>>,
    <<423, 423, 1, 1>>, <<425, 425, 1, 218>>, <<428, 428, 1, 1>>,
    <<430, 430, 1, 218>>, <<431, 431, 1, 1>>, <<433, 434, 1, 217>>,
    <<435, 437, 2, 1>>, <<439, 439, 1, 219>>, <<440, 440, 1, 1>>,
    <<444, 444, 1, 1>>, <<452, 452, 1, 2>>, <<453, 453, 1, 1>>,
    <<455, 455, 1, 2>>, <<456, 456, 1, 1>>, <<458, 458, 1, 2>>,
    <<459, 475, 2, 1>>, <<478, 494, 2, 1>>, <<497, 497, 1, 2>>,
    <<498, 500, 2, 1>>, <<502, 502, 1, -97>>, <<503, 503, 1, -56>>,
    <<504, 542, 2, 1>>, <<544, 544, 1, -130>>, <<546, 562, 2, 1>>,
    <<570, 570, 1, 10795>>, <<571, 571, 1, 1>>, <<573, 573, 1, -163>>,
    <<574, 574, 1, 10792>>, <<577, 577, 1, 1>>, <<579, 579, 1, -195>>,
    <<580, 580, 1, 69>>, <<581, 581, 1, 71>>, <<582, 590, 2, 1>>,
    <<837, 837, 1, 116>>, <<880, 882, 2, 1>>, <<886, 886, 1, 1>>,
    <<895, 895, 1, 116>>, <<902, 902, 1, 38>>, <<904, 906, 1, 37>>,
    <<908, 908, 1, 64>>, <<910, 911, 1, 63>>, <<913, 929, 1, 32>>,
    <<931, 939, 1, 32>>, <<962, 962, 1, 1>>, <<975, 975, 1, 8>>,
    <<976, 976, 1, -30>>, <<977, 977, 1, -25>>, <<981, 981, 1, -15>>,
    <<982, 982, 1, -22>>, <<984, 1006, 2, 1>>, <<1008, 1008, 1, -54>>,
    <<1009, 1009, 1, -48>>, <<1012, 1012, 1, -60>>, <<1013, 1013, 1, -64>>,
    <<1015, 1015, 1, 1>>, <<1017, 1017, 1, -7>>, <<1018, 1018, 1, 1>>,
    <<1021, 1023, 1, -130>>, <<1024, 1039, 1, 80>>, <<1040, 1071, 1, 32>>,
    <<1120, 1152, 2, 1>>, <<1162, 1214, 2, 1>>, <<1216, 1216, 1, 15>>,
    <<1217, 1229, 2, 1>>, <<1232, 1326, 2, 1>>, <<1329, 1366, 1, 48>>,
    <<4256, 4293, 1, 7264>>, <<4295, 4295, 1, 7264>>, <<4301, 4301, 1, 7264>>,
    <<5112, 5117, 1, -8>>, <<7296, 7296, 1, -6222>>, <<7297, 7297, 1, -6221>>,
    <<7298, 7298, 1, -6212>>, <<7299, 7300, 1, -6210>>,
    <<7301, 7301, 1, -6211>>, <<7302, 7302, 1, -6204>>,
    <<7303, 7303, 1, -6180>>, <<7304, 7304, 1, 35267>>,
    <<7312, 7354, 1, -3008>>, <<7357, 7359, 1, -3008>>, <<7680, 7828, 2, 1>>,
    <<7835, 7835, 1, -58>>, <<7838, 7838, 1, -7615>>, <<7840, 7934, 2, 1>>,
    <<7944, 7951, 1, -8>>, <<7960, 7965, 1, -8>>, <<7976, 7983, 1, -8>>,
    <<7992, 7999, 1, -8>>, <<8008, 8013, 1, -8>>, <<8025, 8031, 2, -8>>,
    <<8040, 8047, 1, -8>>, <<8072, 8079, 1, -8>>, <<8088, 8095, 1, -8>>,
    <<8104, 8111, 1, -8>>, <<8120, 8121, 1, -8>>, <<8122, 8123, 1, -74>>,
    <<8124, 8124, 1, -9>>, <<8126, 8126, 1, -7173>>, <<8136, 8139, 1, -86>>,
    <<8140, 8140, 1, -9>>, <<8152, 8153, 1, -8>>, <<8154, 8155, 1, -100>>,
    <<8168, 8169, 1, -8>>, <<8170, 8171, 1, -112>>, <<8172, 8172, 1, -7>>,
    <<8184, 8185, 1, -128>>, <<8186, 8187, 1, -126>>, <<8188, 8188, 1, -9>>,
    <<8486, 8486, 1, -7517>>, <<8490, 8490, 1, -8383>>,
    <<8491, 8491, 1, -8262>>, <<8498, 8498, 1, 28>>, <<8544, 8559, 1, 16>>,
    <<8579, 8579, 1, 1>>, <<9398, 9423, 1, 26>>, <<11264, 11311, 1, 48>>,
    <<11360, 11360, 1, 1>>, <<11362, 11362, 1, -10743>>,
    <<11363, 11363, 1, -3814>>, <<11364, 11364, 1, -10727>>,
    <<11367, 11371, 2, 1>>, <<11373, 11373, 1, -10780>>,
    <<11374, 11374, 1, -10749>>, <<11375, 11375, 1, -10783>>,
    <<11376, 11376, 1, -10782>>, <<11378, 11378, 1, 1>>,
    <<11381, 11381, 1, 1>>, <<11390, 11391, 1, -10815>>,
    <<11392, 11490, 2, 1>>, <<11499, 11501, 2, 1>>, <<11506, 11506, 1, 1>>
    >>

\* The same from U+A640 on; no rune between the two tables has a mapping.
FoldRangesHigh ==
    <<
    <<42560, 42604, 2, 1>>, <<42624, 42650, 2, 1>>, <<42786, 42798, 2, 1>>,
    <<42802, 42862, 2, 1>>, <<42873, 42875, 2, 1>>,
    <<42877, 42877, 1, -35332>>, <<42878, 42886, 2, 1>>,
    <<42891, 42891, 1, 1>>, <<42893, 42893, 1, -42280>>,
    <<42896, 42898, 2, 1>>, <<42902, 42920, 2, 1>>,
    <<42922, 42922, 1, -42308>>, <<42923, 42923, 1, -42319>>,
    <<42924, 42924, 1, -42315>>, <<42925, 42925, 1, -42305>>,
    <<42926, 42926, 1, -42308>>, <<42928, 42928, 1, -42258>>,
    <<42929, 42929, 1, -42282>>, <<42930, 42930, 1, -42261>>,
    <<42931, 42931, 1, 928>>, <<42932, 42946, 2, 1>>,
    <<42948, 42948, 1, -48>>, <<42949, 42949, 1, -42307>>,
    <<42950, 42950, 1, -35384>>, <<42951, 42953, 2, 1>>,
    <<42960, 42960, 1, 1>>, <<42966, 42968, 2, 1>>, <<42997, 42997, 1, 1>>,
    <<43888, 43967, 1, -38864>>, <<65313, 65338, 1, 32>>,
    <<66560, 66599, 1, 40>>, <<66736, 66771, 1, 40>>, <<66928, 66964, 2, 39>>,
    <<66929, 66937, 2, 39>>, <<66941, 66953, 2, 39>>, <<66957, 66961, 2, 39>>,
    <<66965, 66965, 1, 39>>, <<68736, 68786, 1, 64>>, <<71840, 71871, 1, 32>>,
    <<93760, 93791, 1, 32>>, <<125184, 125217, 1, 34>>
    >>

\* The rune that stands for r's class under simple case folding: two runes
\* are equal to strings.EqualFold exactly when they are in the same class.
FoldRune(r) ==
    IF r <= 127 THEN (IF r \in 65..90 THEN r + 32 ELSE r)
    ELSE IF r <= FoldRangesLow[Len(FoldRangesLow)][2]
         THEN CaseMap(FoldRangesLow, r)
         ELSE CaseMap(FoldRangesHigh, r)

\* strings.EqualFold(s, t)
EqualFold(s, t) ==
    /\ Len(s) = Len(t)
    /\ \A k \in 1..Len(s) : FoldRune(s[k]) = FoldRune(t[k])

RECURSIVE Join(_, _)
\* strings.Join(elems, sep)
Join(elems, sep) ==
    IF elems = <<>> THEN <<>>
    ELSE IF Len(elems) = 1 THEN elems[1]
    ELSE elems[1] \o sep \o Join(Tail(elems), sep)

\* isChineseText(text)
isChineseText(text) ==
    \A k \in 1..Len(text) :
        ~(~IsHan(text[k]) /\ text[k] # Space /\ text[k] # Hyphen)

RECURSIVE extractChineseCharacters(_)
\* extractChineseCharacters(text): one one-rune string per Han rune, in order
extractChineseCharacters(text) ==
    IF text = <<>> THEN <<>>
    ELSE (IF IsHan(Head(text)) THEN << <<Head(text)>> >> ELSE <<>>)
            \o extractChineseCharacters(Tail(text))

\* capitalizePhrase(phrase)
capitalizePhrase(phrase) ==
    IF Len(phrase) > 0
    THEN [phrase EXCEPT ![1] = ToUpper(phrase[1])]
    ELSE phrase

-----------------------------------------------------------------------------
(* The phrase chunker: extractNounPhrases and extractVerbPhrases, which    *)
(* differ only in the tags of the switch's first case.                     *)

\* The tags of the first case of the switch on tok.Tag.
GroupTags(g) ==
    IF g = "noun" THEN {"DT", "NN", "JJ"} ELSE {"VB", "RB", "MD"}

\* ChunkToken with a bug: at a boundary the buffer is cleared before it is
\* joined, so the pending phrase is lost.
ChunkTokenDropsPhrase(st, tok, g) ==
    IF isChineseText(tok.Text)
    THEN IF tok.Tag \in GroupTags(g)
         THEN [cur |-> Append(st.cur, tok.Text), out |-> st.out]
         ELSE [cur |-> <<>>, out |-> st.out]
    ELSE st

\* One iteration of the loop over the tokens; st = [cur, out] holds
\* currentPhrase and the phrases emitted so far.
ChunkToken(st, tok, g) ==
    IF isChineseText(tok.Text)
    THEN IF tok.Tag \in GroupTags(g)
         THEN [cur |-> Append(st.cur, tok.Text), out |-> st.out]
         ELSE IF Len(st.cur) > 0
              THEN [cur |-> <<>>, out |-> Append(st.out, Join(st.cur, <<Space>>))]
              ELSE st
    ELSE st

\* ChunkFlush with a bug: the trailing flush is missing.
ChunkFlushMissing(st) == st.out

\* The statements after the loop: the trailing flush, and the value returned.
ChunkFlush(st) ==
    IF Len(st.cur) > 0
    THEN Append(st.out, Join(st.cur, <<Space>>))
    ELSE st.out

RECURSIVE ChunkLoop(_, _, _)
\* The loop over the tokens, from the state st.
ChunkLoop(st, toks, g) ==
    IF toks = <<>> THEN st
    ELSE ChunkLoop(ChunkToken(st, Head(toks), g), Tail(toks), g)

\* extractNounPhrases(tokens)
extractNounPhrases(toks) ==
    ChunkFlush(ChunkLoop([cur |-> <<>>, out |-> <<>>], toks, "noun"))

\* extractVerbPhrases(tokens)
extractVerbPhrases(toks) ==
    ChunkFlush(ChunkLoop([cur |-> <<>>, out |-> <<>>], toks, "verb"))

-----------------------------------------------------------------------------
(* The classifier: the loop over doc.Tokens() of categorizeChineseText.    *)

\* The keys of categoryFiles.
Categories ==
    {"ChineseCharacters", "ChineseAdjectives", "ChineseAdverbs",
     "ChineseCommonPhrases", "ChineseIdioms", "ChineseNouns",
     "ChineseNounPhrases", "ChineseSlang", "ChineseVerbPhrases",
     "ChineseVerbs", "ChineseOtherExpressions"}

\* idioms: "井底之蛙", "守株待兔", "画蛇添足", "纸上谈兵"
idioms ==
    << <<20117, 24213, 20043, 34521>>, <<23432, 26666, 24453, 20820>>,
       <<30011, 34503, 28155, 36275>>, <<32440, 19978, 35848, 20853>> >>

\* slang: "吃土", "学霸", "宅男", "高富帅"
slang ==
    << <<21507, 22303>>, <<23398, 38712>>, <<23429, 30007>>,
       <<39640, 23500, 24069>> >>

\* matchesPhraseList with a bug: the loop returns on its first item.
matchesPhraseListFirstOnly(phrase, list) ==
    list # <<>> /\ EqualFold(list[1], phrase)

\* matchesPhraseList(phrase, list)
matchesPhraseList(phrase, list) ==
    \E k \in 1..Len(list) : EqualFold(list[k], phrase)

\* results := make(map[string][]string); a key never assigned reads as the
\* nil slice, which is the empty sequence here.
EmptyResults == [c \in Categories |-> <<>>]

\* results[cat] = append(results[cat], items...)
AppendTo(res, cat, items) == [res EXCEPT ![cat] = @ \o items]

\* PrimaryBucket with a bug: the case "RB" is missing.
PrimaryBucketNoAdverbs(tag) ==
    CASE tag = "NN" -> "ChineseNouns"
      [] tag = "VB" -> "ChineseVerbs"
      [] tag = "JJ" -> "ChineseAdjectives"
      [] OTHER -> "ChineseOtherExpressions"

\* The switch on tok.Tag: the primary bucket of a tag.
PrimaryBucket(tag) ==
    CASE tag = "NN" -> "ChineseNouns"
      [] tag = "VB" -> "ChineseVerbs"
      [] tag = "JJ" -> "ChineseAdjectives"
      [] tag = "RB" -> "ChineseAdverbs"
      [] OTHER -> "ChineseOtherExpressions"

\* ClassifyToken with a bug: the isChineseText test is missing.
ClassifyTokenUnfiltered(res, tok) ==
    LET r1 == AppendTo(res, "ChineseCharacters",
                       extractChineseCharacters(tok.Text))
        r2 == AppendTo(r1, PrimaryBucket(tok.Tag), <<tok.Text>>)
        r3 == IF matchesPhraseList(tok.Text, idioms)
              THEN AppendTo(r2, "ChineseIdioms", <<tok.Text>>)
              ELSE r2
    IN  IF matchesPhraseList(tok.Text, slang)
        THEN AppendTo(r3, "ChineseSlang", <<tok.Text>>)
        ELSE r3

\* One iteration of the loop over doc.Tokens().
ClassifyToken(res, tok) ==
    IF isChineseText(tok.Text)
    THEN LET r1 == AppendTo(res, "ChineseCharacters",
                            extractChineseCharacters(tok.Text))
             r2 == AppendTo(r1, PrimaryBucket(tok.Tag), <<tok.Text>>)
             r3 == IF matchesPhraseList(tok.Text, idioms)
                   THEN AppendTo(r2, "ChineseIdioms", <<tok.Text>>)
                   ELSE r2
             r4 == IF matchesPhraseList(tok.Text, slang)
                   THEN AppendTo(r3, "ChineseSlang", <<tok.Text>>)
                   ELSE r3
         IN  r4
    ELSE res

-----------------------------------------------------------------------------
(* The frequency ranker: countFrequencies and sortByFrequency.             *)

\* counts[key]++ on a Go map: a missing key counts from 0.
Increment(m, key) ==
    [x \in (DOMAIN m) \cup {key} |->
        IF x = key THEN (IF key \in DOMAIN m THEN m[key] ELSE 0) + 1
        ELSE m[x]]

RECURSIVE CountLoop(_, _)
\* The loop of countFrequencies, from the map m.
CountLoop(m, items) ==
    IF items = <<>> THEN m
    ELSE CountLoop(Increment(m, capitalizePhrase(Head(items))), Tail(items))

\* countFrequencies(content)
countFrequencies(items) == CountLoop(<<>>, items)

RECURSIVE MapOrders(_)
\* The orders in which `range` may visit the keys S of a map.
MapOrders(S) ==
    IF S = {} THEN {<<>>}
    ELSE UNION {{<<x>> \o t : t \in MapOrders(S \ {x})} : x \in S}

\* Less with a bug: the comparison is the wrong way round.
LessAscending(a, b) == a.Frequency < b.Frequency

\* The less function given to sort.Slice.
Less(a, b) == a.Frequency > b.Frequency

RECURSIVE SinkDown(_, _)
\* The inner loop of the insertion sort: for j := i; j > a && less(j, j-1); j--
SinkDown(data, j) ==
    IF j > 1 /\ Less(data[j], data[j - 1])
    THEN SinkDown([data EXCEPT ![j] = data[j - 1], ![j - 1] = data[j]], j - 1)
    ELSE data

RECURSIVE InsertionSort(_, _)
\* sort.Slice on a slice of at most 6 elements is an insertion sort.
InsertionSort(data, k) ==
    IF k > Len(data) THEN data
    ELSE InsertionSort(SinkDown(data, k), k + 1)

\* sortByFrequency with a bug: the call of sort.Slice is missing.
sortByFrequencyUnsorted(cnts, order) == order

\* sortByFrequency(counts), the range over counts visiting its keys in `order`
sortByFrequency(cnts, order) ==
    LET items == [k \in 1..Len(order) |->
                    [Item |-> order[k], Frequency |-> cnts[order[k]]]]
        sorted == InsertionSort(items, 2)
    IN  [k \in 1..Len(sorted) |-> sorted[k].Item]

RECURSIVE WriteLines(_)
\* The bytes the writer is given: item + "\n" for each item.
WriteLines(items) ==
    IF items = <<>> THEN <<>>
    ELSE Head(items) \o <<Newline>> \o WriteLines(Tail(items))

-----------------------------------------------------------------------------
(* Inputs *)

Tok(text, tag) == [Text |-> text, Tag |-> tag]

\* The streams of at most n tokens (or items) of a pool.
Streams(pool, n) == UNION {[1..k -> pool] : k \in 0..n}

\* Tokens for the chunker: "红"/NN "花"/JJ "这"/DT "吃"/VB "很"/RB "会"/MD,
\* and the non-Chinese "ab"/NN and "ok"/VB.
ChunkPool ==
    {Tok(<<32418>>, "NN"), Tok(<<33457>>, "JJ"), Tok(<<36825>>, "DT"),
     Tok(<<21507>>, "VB"), Tok(<<24456>>, "RB"), Tok(<<20250>>, "MD"),
     Tok(<<97, 98>>, "NN"), Tok(<<111, 107>>, "VB")}

\* Tokens for the classifier: "花"/NN "吃"/VB "红"/JJ "很"/RB "这"/DT
\* "红-花"/JJ "二〇"/CD, the slang "学霸" as NN and as VB, the idiom "井底之蛙"/NN, and
\* the non-Chinese "ab"/NN and "红a"/VB.
DocPool ==
    {Tok(<<33457>>, "NN"), Tok(<<21507>>, "VB"), Tok(<<32418>>, "JJ"),
     Tok(<<24456>>, "RB"), Tok(<<36825>>, "DT"),
     Tok(<<32418, 45, 33457>>, "JJ"), Tok(<<20108, 12295>>, "CD"),
     Tok(<<23398, 38712>>, "NN"), Tok(<<23398, 38712>>, "VB"),
     Tok(<<20117, 24213, 20043, 34521>>, "NN"),
     Tok(<<97, 98>>, "NN"), Tok(<<32418, 97>>, "VB")}

\* Tokens for a whole run: "花"/NN and the slang "吃土"/VB.
RunPool == {Tok(<<33457>>, "NN"), Tok(<<21507, 22303>>, "VB")}

\* Items for the ranker: "a" "A" "ab" "é" "红" "花".
ItemPool == {<<97>>, <<65>>, <<97, 98>>, <<233>>, <<32418>>, <<33457>>}

-----------------------------------------------------------------------------
(* categorizeChineseText *)

\* os.Open, the scanner or prose.NewDocument fails: the error is returned
\* before anything is written.
InputFail ==
    /\ pc = "open"
    /\ \E e \in {"open", "read", "prose"} : err' = e
    /\ pc' = "done"
    /\ UNCHANGED <<tokens, i, results, group, currentPhrase, phrases, content,
                   counts, sortedItems, files, todo, run, prev>>

\* The input is read and tokenized; results is made.
Tokenize ==
    /\ pc = "open"
    /\ pc' = "classify"
    /\ i' = 1
    /\ results' = EmptyResults
    /\ UNCHANGED <<tokens, group, currentPhrase, phrases, content, counts,
                   sortedItems, files, todo, err, run, prev>>

\* One iteration of the loop over doc.Tokens().
ClassifyStep ==
    /\ pc = "classify"
    /\ i <= Len(tokens)
    /\ results' = ClassifyToken(results, tokens[i])
    /\ i' = i + 1
    /\ UNCHANGED <<pc, tokens, group, currentPhrase, phrases, content, counts,
                   sortedItems, files, todo, err, run, prev>>

\* After the loop: the two phrase lists are stored in results.
ExtractPhrases ==
    /\ pc = "classify"
    /\ i > Len(tokens)
    /\ results' = [results EXCEPT
                     !["ChineseNounPhrases"] = extractNounPhrases(tokens),
                     !["ChineseVerbPhrases"] = extractVerbPhrases(tokens)]
    /\ pc' = "write"
    /\ todo' = Categories
    /\ UNCHANGED <<tokens, i, group, currentPhrase, phrases, content, counts,
                   sortedItems, files, err, run, prev>>

\* os.Create(path) succeeded and the ranked items were written: the file
\* exists with exactly these bytes, whatever it held before.
CreateAndWrite(fs, c, bytes) ==
    [d \in (DOMAIN fs) \cup {c} |-> IF d = c THEN bytes ELSE fs[d]]

\* WriteCategory with a bug: a category with no items gets no file.
WriteCategorySkipsEmpty ==
    /\ pc = "write"
    /\ \E c \in todo :
         LET countedContent == countFrequencies(results[c])
         IN  \E order \in MapOrders(DOMAIN countedContent) :
               /\ files' = IF results[c] = <<>> THEN files
                            ELSE CreateAndWrite(files, c,
                                   WriteLines(sortByFrequency(countedContent, order)))
               /\ todo' = todo \ {c}
    /\ UNCHANGED <<pc, tokens, i, results, group, currentPhrase, phrases,
                   content, counts, sortedItems, err, run, prev>>

\* One iteration of the loop over categoryFiles, os.Create succeeding.
WriteCategory ==
    /\ pc = "write"
    /\ \E c \in todo :
         LET countedContent == countFrequencies(results[c])
         IN  \E order \in MapOrders(DOMAIN countedContent) :
               /\ files' = CreateAndWrite(files, c,
                              WriteLines(sortByFrequency(countedContent, order)))
               /\ todo' = todo \ {c}
    /\ UNCHANGED <<pc, tokens, i, results, group, currentPhrase, phrases,
                   content, counts, sortedItems, err, run, prev>>

\* CreateFail with a bug: the files written so far are removed before the
\* error is returned.
CreateFailCleansUp ==
    /\ pc = "write"
    /\ todo # {}
    /\ err' = "create"
    /\ pc' = "done"
    /\ files' = <<>>
    /\ UNCHANGED <<tokens, i, results, group, currentPhrase, phrases, content,
                   counts, sortedItems, todo, run, prev>>

\* One iteration of the loop over categoryFiles, os.Create failing: the
\* error is returned at once.
CreateFail ==
    /\ pc = "write"
    /\ todo # {}
    /\ err' = "create"
    /\ pc' = "done"
    /\ UNCHANGED <<tokens, i, results, group, currentPhrase, phrases, content,
                   counts, sortedItems, files, todo, run, prev>>

\* The loop over categoryFiles has ended: return nil.
Return ==
    /\ pc = "write"
    /\ todo = {}
    /\ pc' = "done"
    /\ UNCHANGED <<tokens, i, results, group, currentPhrase, phrases, content,
                   counts, sortedItems, files, todo, err, run, prev>>

\* After a run that returned nil, the program is run a second time on the
\* same input file and output directory; the directory keeps what the first
\* run left in it.
Rerun ==
    /\ pc = "done"
    /\ err = "nil"
    /\ run = 1
    /\ run' = 2
    /\ prev' = files
    /\ pc' = "open"
    /\ err' = "nil"
    /\ i' = 1
    /\ results' = EmptyResults
    /\ todo' = {}
    /\ UNCHANGED <<tokens, group, currentPhrase, phrases, content, counts,
                   sortedItems, files>>

-----------------------------------------------------------------------------
(* The chunker and the ranker, run on their own *)

\* One iteration of the chunker's loop over the tokens.
ChunkStep ==
    /\ pc = "chunk"
    /\ i <= Len(tokens)
    /\ LET st == ChunkToken([cur |-> currentPhrase, out |-> phrases],
                            tokens[i], group)
       IN  /\ currentPhrase' = st.cur
           /\ phrases' = st.out
    /\ i' = i + 1
    /\ UNCHANGED <<pc, tokens, results, group, content, counts, sortedItems,
                   files, todo, err, run, prev>>

\* The chunker's loop has ended: the trailing flush, and the return.
ChunkReturn ==
    /\ pc = "chunk"
    /\ i > Len(tokens)
    /\ phrases' = ChunkFlush([cur |-> currentPhrase, out |-> phrases])
    /\ pc' = "chunked"
    /\ UNCHANGED <<tokens, i, results, group, currentPhrase, content, counts,
                   sortedItems, files, todo, err, run, prev>>

\* countedContent := countFrequencies(content)
CountFrequencies ==
    /\ pc = "count"
    /\ counts' = countFrequencies(content)
    /\ pc' = "sort"
    /\ UNCHANGED <<tokens, i, results, group, currentPhrase, phrases, content,
                   sortedItems, files, todo, err, run, prev>>

\* sortedContent := sortByFrequency(countedContent)
SortByFrequency ==
    /\ pc = "sort"
    /\ \E order \in MapOrders(DOMAIN counts) :
         sortedItems' = sortByFrequency(counts, order)
    /\ pc' = "ranked"
    /\ UNCHANGED <<tokens, i, results, group, currentPhrase, phrases, content,
                   counts, files, todo, err, run, prev>>

-----------------------------------------------------------------------------
(* Specifications *)

\* The values of the variables a specification does not use.
Idle ==
    /\ i = 1
    /\ results = EmptyResults
    /\ group = "noun"
    /\ currentPhrase = <<>>
    /\ phrases = <<>>
    /\ content = <<>>
    /\ counts = <<>>
    /\ sortedItems = <<>>
    /\ files = <<>>
    /\ todo = {}
    /\ err = "nil"
    /\ run = 1
    /\ prev = <<>>

\* One run of categorizeChineseText into an empty output directory.
Init ==
    /\ pc = "open"
    /\ tokens \in Streams(RunPool, MaxRunTokens)
    /\ Idle

Next ==
    \/ InputFail
    \/ Tokenize
    \/ ClassifyStep
    \/ ExtractPhrases
    \/ WriteCategory
    \/ CreateFail
    \/ Return

Spec == Init /\ [][Next]_vars

\* Two runs of categorizeChineseText on the same input.
NextTwoRuns == Next \/ Rerun

SpecTwoRuns == Init /\ [][NextTwoRuns]_vars

\* The classification part of categorizeChineseText (main.go:180-212).
InitClassify ==
    /\ pc = "classify"
    /\ tokens \in Streams(DocPool, MaxDocTokens)
    /\ Idle

NextClassify == ClassifyStep \/ ExtractPhrases

SpecClassify == InitClassify /\ [][NextClassify]_vars

\* extractNounPhrases / extractVerbPhrases on a token stream.
InitChunk ==
    /\ pc = "chunk"
    /\ tokens \in Streams(ChunkPool, MaxChunkTokens)
    /\ i = 1
    /\ results = EmptyResults
    /\ group \in {"noun", "verb"}
    /\ currentPhrase = <<>>
    /\ phrases = <<>>
    /\ content = <<>>
    /\ counts = <<>>
    /\ sortedItems = <<>>
    /\ files = <<>>
    /\ todo = {}
    /\ err = "nil"
    /\ run = 1
    /\ prev = <<>>

NextChunk == ChunkStep \/ ChunkReturn

SpecChunk == InitChunk /\ [][NextChunk]_vars

\* countFrequencies followed by sortByFrequency on a list of items.
InitRank ==
    /\ pc = "count"
    /\ tokens = <<>>
    /\ i = 1
    /\ results = EmptyResults
    /\ group = "noun"
    /\ currentPhrase = <<>>
    /\ phrases = <<>>
    /\ content \in Streams(ItemPool, MaxItems)
    /\ counts = <<>>
    /\ sortedItems = <<>>
    /\ files = <<>>
    /\ todo = {}
    /\ err = "nil"
    /\ run = 1
    /\ prev = <<>>

NextRank == CountFrequencies \/ SortByFrequency

SpecRank == InitRank /\ [][NextRank]_vars

-----------------------------------------------------------------------------
(* Operators the properties are stated with *)

Range(s) == {s[k] : k \in DOMAIN s}

RECURSIVE Flatten(_)
\* The concatenation of a sequence of sequences.
Flatten(ss) == IF ss = <<>> THEN <<>> ELSE Head(ss) \o Flatten(Tail(ss))

RECURSIVE Split(_, _)
\* The pieces of s between the occurrences of the rune sep.
Split(s, sep) ==
    IF \A k \in 1..Len(s) : s[k] # sep THEN <<s>>
    ELSE LET k == CHOOSE j \in 1..Len(s) :
                    s[j] = sep /\ \A h \in 1..(j - 1) : s[h] # sep
         IN  <<SubSeq(s, 1, k - 1)>> \o Split(SubSeq(s, k + 1, Len(s)), sep)

\* The lines of a file, each ended by a newline.
Lines(bytes) ==
    IF bytes = <<>> THEN <<>>
    ELSE LET parts == Split(bytes, Newline)
         IN  SubSeq(parts, 1, Len(parts) - 1)

\* The token texts of a phrase.
Components(phrase) == Split(phrase, Space)

\* The texts of a token stream.
Texts(toks) == [k \in 1..Len(toks) |-> toks[k].Text]

\* A token the chunker of group g may put in a phrase.
Chunkable(tok, g) ==
    /\ \A k \in 1..Len(tok.Text) :
          IsHan(tok.Text[k]) \/ tok.Text[k] \in {Space, Hyphen}
    /\ tok.Tag \in (IF g = "noun" THEN {"DT", "NN", "JJ"} ELSE {"VB", "RB", "MD"})

\* The positions in toks of the tokens of group g, in order.
ChunkablePositions(toks, g) ==
    SelectSeq([k \in 1..Len(toks) |-> k], LAMBDA k : Chunkable(toks[k], g))

\* The number of token texts in the first n phrases.
ComponentsBefore(ps, n) == Len(Flatten([k \in 1..n |-> Components(ps[k])]))

-----------------------------------------------------------------------------
(* Properties of the chunker, under SpecChunk *)

\* C1: when the chunker has returned, no emitted phrase joins two tokens
\* that have another token (non-Chinese, or Chinese and out of the group)
\* between them in the stream: the token texts of a phrase stand at
\* consecutive positions of the stream.
C1_PhrasesNeverSpanABoundary ==
    pc = "chunked" =>
        LET pos == ChunkablePositions(tokens, group)
        IN  \A a \in 1..Len(phrases) :
              \A b \in 1..(Len(Components(phrases[a])) - 1) :
                 LET n == ComponentsBefore(phrases, a - 1) + b
                 IN  n + 1 <= Len(pos) /\ pos[n + 1] = pos[n] + 1

\* C7: when the chunker has returned and its buffer was not empty at the end
\* of the stream, the last phrase is the buffer joined by single spaces; and
\* for a non-empty stream of Chinese tokens of the group, the result is the
\* one phrase of all the texts joined by single spaces.
C7_TrailingFlush ==
    pc = "chunked" =>
        /\ currentPhrase # <<>> =>
              /\ phrases # <<>>
              /\ phrases[Len(phrases)] = Join(currentPhrase, <<Space>>)
        /\ (tokens # <<>> /\ \A k \in 1..Len(tokens) : Chunkable(tokens[k], group))
              => phrases = <<Join(Texts(tokens), <<Space>>)>>

\* C7's case: the noun chunker has returned ["红 花"] for "红"/NN "花"/JJ.
C7_Witness ==
    /\ pc = "chunked"
    /\ group = "noun"
    /\ tokens = <<Tok(<<32418>>, "NN"), Tok(<<33457>>, "JJ")>>
    /\ phrases = << <<32418, 32, 33457>> >>

\* C10: at every point of the chunker's loop the token texts of the emitted
\* phrases followed by the buffer are exactly the texts of the Chinese tokens
\* of the group read so far, in stream order; when the chunker has returned
\* the emitted phrases alone are, and no emitted phrase is empty.
C10_TokenConservation ==
    LET seen == IF pc = "chunked" THEN tokens ELSE SubSeq(tokens, 1, i - 1)
        kept == ChunkablePositions(seen, group)
        emitted == Flatten([k \in 1..Len(phrases) |-> Components(phrases[k])])
    IN  pc \in {"chunk", "chunked"} =>
          /\ emitted \o (IF pc = "chunked" THEN <<>> ELSE currentPhrase)
                = [k \in 1..Len(kept) |-> seen[kept[k]].Text]
          /\ \A k \in 1..Len(phrases) : phrases[k] # <<>>

\* C10's case: the chunker has returned two phrases, one of two tokens, and
\* has skipped a token.
C10_Witness ==
    /\ pc = "chunked"
    /\ Len(phrases) = 2
    /\ \E k \in 1..2 : Len(Components(phrases[k])) = 2
    /\ Len(ChunkablePositions(tokens, group)) < Len(tokens)

-----------------------------------------------------------------------------
(* Properties of the classifier, under SpecClassify *)

\* The tokens the classification loop has read.
Seen == SubSeq(tokens, 1, i - 1)

\* The tokens read whose text passes isChineseText.
SeenChinese == SelectSeq(Seen, LAMBDA t : isChineseText(t.Text))

\* The texts of the Chinese tokens read whose tag is in tags.
SeenTagged(tags) == Texts(SelectSeq(SeenChinese, LAMBDA t : t.Tag \in tags))

\* A string with every rune case-folded.
FoldString(str) == [k \in 1..Len(str) |-> FoldRune(str[k])]

\* The texts of the Chinese tokens read that equal, case-insensitively, an
\* entry of list.
SeenListed(list) ==
    Texts(SelectSeq(SeenChinese,
             LAMBDA t : FoldString(t.Text) \in {FoldString(e) : e \in Range(list)}))

PrimaryCategories ==
    {"ChineseNouns", "ChineseVerbs", "ChineseAdjectives", "ChineseAdverbs",
     "ChineseOtherExpressions"}

RECURSIVE SumOfLengths(_, _)
\* The sum of the lengths of res[c], for the categories c of cs.
SumOfLengths(res, cs) ==
    IF cs = {} THEN 0
    ELSE LET c == CHOOSE x \in cs : TRUE
         IN  Len(res[c]) + SumOfLengths(res, cs \ {c})

\* C2: at every point of the classification loop, each primary bucket holds
\* the texts of the Chinese tokens read so far that carry its tag (NN nouns,
\* VB verbs, JJ adjectives, RB adverbs, any other tag other expressions), once
\* per occurrence and in stream order; so the five lengths add up to the
\* number of Chinese tokens read.
C2_PrimaryBuckets ==
    pc \in {"classify", "write"} =>
        /\ results["ChineseNouns"] = SeenTagged({"NN"})
        /\ results["ChineseVerbs"] = SeenTagged({"VB"})
        /\ results["ChineseAdjectives"] = SeenTagged({"JJ"})
        /\ results["ChineseAdverbs"] = SeenTagged({"RB"})
        /\ results["ChineseOtherExpressions"] =
              Texts(SelectSeq(SeenChinese,
                       LAMBDA t : t.Tag \notin {"NN", "VB", "JJ", "RB"}))
        /\ SumOfLengths(results, PrimaryCategories) = Len(SeenChinese)

\* C2's case: the loop has ended on three Chinese tokens: an adverb, a noun
\* and one of another tag.
C2_Witness ==
    /\ pc = "write"
    /\ Len(results["ChineseAdverbs"]) = 1
    /\ Len(results["ChineseNouns"]) = 1
    /\ Len(results["ChineseOtherExpressions"]) = 1

\* C8: at every point of the classification loop, Idioms holds the texts of
\* the Chinese tokens read that equal an idiom, and Slang those that equal a
\* slang entry, whatever their tags; and every Chinese token read is in a
\* primary bucket all the same.
C8_SecondaryIndependent ==
    pc \in {"classify", "write"} =>
        /\ results["ChineseIdioms"] = SeenListed(idioms)
        /\ results["ChineseSlang"] = SeenListed(slang)
        /\ \A t \in Range(SeenChinese) :
              \E c \in PrimaryCategories : t.Text \in Range(results[c])
        /\ SumOfLengths(results, PrimaryCategories) = Len(SeenChinese)

\* C8's case: the slang "学霸" was read as a noun and as a verb and the idiom
\* "井底之蛙" as a noun; each is in its primary bucket and in its list's.
C8_Witness ==
    /\ pc = "write"
    /\ results["ChineseSlang"] = << <<23398, 38712>>, <<23398, 38712>> >>
    /\ results["ChineseIdioms"] = << <<20117, 24213, 20043, 34521>> >>
    /\ <<23398, 38712>> \in Range(results["ChineseNouns"])
    /\ <<23398, 38712>> \in Range(results["ChineseVerbs"])
    /\ <<20117, 24213, 20043, 34521>> \in Range(results["ChineseNouns"])

\* C9: a token read whose text fails isChineseText is in no category: its
\* text is in no primary bucket, not in Idioms and not in Slang; Characters
\* holds the Han runes of the Chinese tokens read and nothing else; and, once
\* the phrases are extracted, its text is a token text of no phrase.
C9_NonChineseContributesNothing ==
    pc \in {"classify", "write"} =>
        /\ \A k \in 1..Len(Seen) :
              ~isChineseText(Seen[k].Text) =>
                 /\ \A c \in PrimaryCategories \cup {"ChineseIdioms", "ChineseSlang"} :
                       Seen[k].Text \notin Range(results[c])
                 /\ \A c \in {"ChineseNounPhrases", "ChineseVerbPhrases"} :
                       \A p \in Range(results[c]) :
                          Seen[k].Text \notin Range(Components(p))
        /\ results["ChineseCharacters"] =
              Flatten([k \in 1..Len(SeenChinese) |->
                         LET han == SelectSeq(SeenChinese[k].Text,
                                              LAMBDA r : IsHan(r))
                         IN  [j \in 1..Len(han) |-> <<han[j]>>]])

\* C9's case: the loop has ended on a stream with the non-Chinese "ab"/NN
\* and "红a"/VB around a Chinese noun, which is in Nouns and in a noun phrase.
C9_Witness ==
    /\ pc = "write"
    /\ tokens = <<Tok(<<97, 98>>, "NN"), Tok(<<33457>>, "NN"),
                  Tok(<<32418, 97>>, "VB")>>
    /\ results["ChineseNouns"] = << <<33457>> >>
    /\ results["ChineseNounPhrases"] = << <<33457>> >>
    /\ results["ChineseCharacters"] = << <<33457>> >>

-----------------------------------------------------------------------------
(* Properties of the ranker, under SpecRank *)

\* The number of items of a list whose normalized form is x.
Occurrences(items, x) ==
    Cardinality({k \in 1..Len(items) : capitalizePhrase(items[k]) = x})

\* The normalized forms of the items of a list.
Normalized(items) == {capitalizePhrase(items[k]) : k \in 1..Len(items)}

\* C3: when the ranker has returned, its list holds each distinct normalized
\* item of the input once and nothing else, no item comes before an item with
\* a higher count, and it is empty for an empty input.
C3_RankedByDescendingCount ==
    pc = "ranked" =>
        /\ Range(sortedItems) = Normalized(content)
        /\ Len(sortedItems) = Cardinality(Normalized(content))
        /\ \A a, b \in 1..Len(sortedItems) :
              Occurrences(content, sortedItems[a]) > Occurrences(content, sortedItems[b])
                 => a < b
        /\ content = <<>> => sortedItems = <<>>

\* C3's case: "a" "红" "A" "花" is ranked "A" (twice, merged) before "红" and
\* "花".
C3_Witness ==
    /\ pc = "ranked"
    /\ content = << <<97>>, <<32418>>, <<65>>, <<33457>> >>
    /\ Len(sortedItems) = 3
    /\ sortedItems[1] = <<65>>

-----------------------------------------------------------------------------
(* Properties of two runs, under SpecTwoRuns *)

\* Both runs have returned nil.
BothRunsDone == run = 2 /\ pc = "done" /\ err = "nil"

\* C4 as stated: after two runs on the same input every output file of the
\* second run equals that of the first, line for line, the order of the
\* items with equal counts included.
C4_RunsIdentical == BothRunsDone => files = prev

\* C4, amended: after two runs on the same input every category's file has
\* the same lines in both runs, and at each place of the file the items of
\* the two runs have the same count: the files differ at most in the order
\* of items with equal counts.
C4_RunsEqualUpToTies ==
    BothRunsDone =>
        /\ DOMAIN files = Categories
        /\ DOMAIN prev = Categories
        /\ \A c \in Categories :
              LET a == Lines(files[c])
                  b == Lines(prev[c])
              IN  /\ Len(a) = Len(b)
                  /\ Range(a) = Range(b)
                  /\ \A k \in 1..Len(a) :
                        Occurrences(results[c], a[k]) = Occurrences(results[c], b[k])

\* C4's case: two runs have returned nil, and a file that holds items of
\* different counts and items of equal counts differs between the runs.
C4_Witness ==
    /\ BothRunsDone
    /\ \E c \in Categories :
          /\ files[c] # prev[c]
          /\ \E x, y \in Range(Lines(files[c])) :
                Occurrences(results[c], x) > Occurrences(results[c], y)

-----------------------------------------------------------------------------
(* Properties of the write loop, under Spec *)

\* C5: when categorizeChineseText has returned the error of a failed
\* os.Create, the categories the loop had not visited (the failed one among
\* them) have no file, and each category visited before has its file, holding
\* the distinct normalized items of the category, one per line.
C5_CreateFailureStopsTheLoop ==
    (pc = "done" /\ err = "create") =>
        /\ todo # {}
        /\ DOMAIN files = Categories \ todo
        /\ \A c \in DOMAIN files :
              /\ Range(Lines(files[c])) = Normalized(results[c])
              /\ Len(Lines(files[c])) = Cardinality(Normalized(results[c]))

\* C5's case: os.Create failed after some files were written, one of them
\* not empty, and before others were.
C5_Witness ==
    /\ pc = "done"
    /\ err = "create"
    /\ Cardinality(todo) = 4
    /\ "ChineseNouns" \in DOMAIN files
    /\ files["ChineseNouns"] # <<>>

\* C6: when categorizeChineseText has returned nil, each of the 11
\* categories has its file, and the file of a category with no items, such
\* as CommonPhrases, is empty.
C6_ElevenFiles ==
    (pc = "done" /\ err = "nil") =>
        /\ DOMAIN files = Categories
        /\ Cardinality(DOMAIN files) = 11
        /\ files["ChineseCommonPhrases"] = <<>>
        /\ \A c \in Categories : results[c] = <<>> => files[c] = <<>>

\* C6's case: a run on a stream with a noun has returned nil; Nouns is not
\* empty and Verbs is.
C6_Witness ==
    /\ pc = "done"
    /\ err = "nil"
    /\ results["ChineseNouns"] # <<>>
    /\ results["ChineseVerbs"] = <<>>
    /\ files["ChineseNouns"] # <<>>
    /\ files["ChineseVerbs"] = <<>>

=============================================================================
